---- MODULE Spec2Model ----
(***************************************************************************)
(* Model of the DDNS update client (src/main.py).                          *)
(*                                                                         *)
(* One run of the script: the command line is parsed and config.toml is    *)
(* loaded, command-line options override the loaded configuration, the     *)
(* zone is normalised, and main() checks the required fields, resolves the *)
(* interface address, builds the UPDATE message, sends it once and reports *)
(* the outcome.                                                            *)
(*                                                                         *)
(* Representation.  Optional values are sequences: None is <<>> and a      *)
(* present value v is <<v>>.  Strings the code inspects character by       *)
(* character (zone: endswith("."); interface names: lower()) are sequences *)
(* of code points; strings it only compares or passes on are TLA+ strings. *)
(* An IPv4 address text is its four octets, an IPv4Address its 32-bit      *)
(* value as two 16-bit halves.                                             *)
(***************************************************************************)
EXTENDS Integers, Sequences, FiniteSets, TLC

VARIABLES
    cli,           \* the options given on the command line
    file,          \* the settings config.toml holds
    args,          \* parse_args() result
    config,        \* the global Config object
    pc,            \* position of the script
    net_if_addrs,  \* the snapshot psutil.net_if_addrs() returned
    resolved,      \* what get_interface_ip returned and why
    keyring,       \* the TSIG keyring main() prepared
    update,        \* the dns.update.Update message, once built
    wire,          \* network exchanges attempted, in order
    result,        \* what the exchange produced: a response or an exception
    log,           \* logger.info / logger.error records, in order
    exit_code      \* process exit status, once the process has ended

vars == <<cli, file, args, config, pc, net_if_addrs, resolved, keyring, update, wire,
          result, log, exit_code>>

None == <<>>
Some(v) == <<v>>
IsNone(o) == o = <<>>
Get(o) == o[1]

----------------------------------------------------------------------------
(* Text helpers *)

\* str.endswith(".")
EndsWithDot(s) == Len(s) > 0 /\ s[Len(s)] = 46

\* faulty variant of Lower: the name is compared as written
LowerForgotten(s) == s

\* str.lower(), for the ASCII letters the modelled names hold
Lower(s) == [i \in DOMAIN s |-> IF s[i] \in 65..90 THEN s[i] + 32 ELSE s[i]]

\* IPv4Address(text): four octets to the 32-bit value, kept as its high and
\* low 16-bit halves (TLC's integers are 32-bit signed)
IPv4Address(o) == << o[1] * 256 + o[2], o[3] * 256 + o[4] >>

\* IPv4Address.compressed: the value back to dotted text
Compressed(n) == << n[1] \div 256, n[1] % 256, n[2] \div 256, n[2] % 256 >>

is_loopback(n) == n[1] \div 256 = 127            \* 127.0.0.0/8
is_link_local(n) == n[1] = 169 * 256 + 254        \* 169.254.0.0/16
is_reserved(n) == n[1] \div 4096 = 15             \* 240.0.0.0/4

----------------------------------------------------------------------------
(* Inputs *)

WLAN == <<87, 76, 65, 78>>                                \* "WLAN"
wlan == <<119, 108, 97, 110>>                             \* "wlan"
Ethernet == <<69, 116, 104, 101, 114, 110, 101, 116>>     \* "Ethernet"
lo == <<108, 111>>                                        \* "lo"

ZoneCli == <<101, 120>>              \* "ex"
ZoneFile == <<111, 114, 103, 46>>    \* "org."

FileKey == [name |-> "filekey", algorithm |-> "hmac-sha256", secret |-> "c2VjcmV0"]

\* config.toml: an empty file, a file that sets only the zone, a file that sets
\* the required fields, a file that sets every field
EmptyFile ==
    [tsig |-> None, name_server |-> None, zone |-> None, hostname |-> None,
     ttl |-> None, timeout |-> None, protocol |-> None, interface |-> None,
     log_level |-> None]
ZoneOnlyFile == [EmptyFile EXCEPT !.zone = Some(ZoneFile)]
RequiredFile ==
    [EmptyFile EXCEPT !.tsig = Some(<<FileKey>>), !.name_server = Some("192.0.2.53"),
                      !.zone = Some(ZoneFile), !.hostname = Some("filehost")]
FullFile ==
    [RequiredFile EXCEPT !.ttl = Some(120), !.timeout = Some(9),
                         !.protocol = Some("tcp"), !.interface = Some(Ethernet),
                         !.log_level = Some("debug")]
Files == {EmptyFile, ZoneOnlyFile, RequiredFile, FullFile}

\* command lines: every option is omitted or given
CommandLines ==
    [ name_server : {None, Some(""), Some("198.51.100.53")},
      zone        : {None, Some(<<>>), Some(ZoneCli)},
      hostname    : {None, Some("clihost")},
      ttl         : {None, Some(600)},
      timeout     : {None, Some(2)},
      protocol    : {None, Some("tcp")},
      interface   : {None, Some(WLAN)},
      log_level   : {None, Some("debug")},
      tsig_name   : {None, Some("clikey")},
      tsig_algorithm : {None},
      tsig_secret : {None, Some("a2V5")} ]

NoOptions == [k \in {"name_server", "zone", "hostname", "ttl", "timeout", "protocol",
                    "interface", "log_level", "tsig_name", "tsig_algorithm",
                    "tsig_secret"} |-> None]

----------------------------------------------------------------------------
(* Configuration stage *)

\* argparse: an omitted option takes its default=, which is None unless stated
OrDefault(o, d) == IF IsNone(o) THEN d ELSE o

parse_args(c) ==
    [ name_server |-> c.name_server,
      zone        |-> c.zone,
      hostname    |-> c.hostname,
      ttl         |-> OrDefault(c.ttl, Some(300)),
      timeout     |-> OrDefault(c.timeout, Some(5)),
      protocol    |-> OrDefault(c.protocol, Some("udp")),
      interface   |-> c.interface,
      log_level   |-> OrDefault(c.log_level, Some("info")),
      tsig_name   |-> c.tsig_name,
      tsig_algorithm |-> OrDefault(c.tsig_algorithm, Some("hmac-sha256")),
      tsig_secret |-> c.tsig_secret ]

\* Field(pattern=r"^.+\.?$") on zone: at least one character
ZonePatternOk(z) == Len(z) >= 1

\* Config(): the file's value, else the field's default
Config(f) ==
    [ tsig        |-> IF IsNone(f.tsig) THEN <<>> ELSE Get(f.tsig),
      name_server |-> IF IsNone(f.name_server) THEN None
                      ELSE Some([type |-> "IPv4Address", text |-> Get(f.name_server)]),
      zone        |-> IF IsNone(f.zone) THEN <<>> ELSE Get(f.zone),
      hostname    |-> IF IsNone(f.hostname) THEN "" ELSE Get(f.hostname),
      ttl         |-> IF IsNone(f.ttl) THEN 3600 ELSE Get(f.ttl),
      timeout     |-> IF IsNone(f.timeout) THEN 5 ELSE Get(f.timeout),
      protocol    |-> IF IsNone(f.protocol) THEN "udp" ELSE Get(f.protocol),
      interface   |-> f.interface,
      log_level   |-> IF IsNone(f.log_level) THEN "info" ELSE Get(f.log_level) ]

\* BaseSettings validates field values, defaults included, against the field's
\* constraints; of the modelled inputs only the zone can fail its pattern
ConfigValid(f) == ZonePatternOk(Config(f).zone)

NoResult == [kind |-> "none", rcode |-> 0, id |-> 0, exc |-> ""]
NotResolved == [called |-> FALSE, ip |-> None, err |-> ""]
NoConfig == Config(EmptyFile)

Init ==
    /\ cli \in CommandLines
    /\ file \in Files
    /\ args = parse_args(NoOptions)
    /\ config = NoConfig
    /\ pc = "start"
    /\ net_if_addrs = [raises |-> FALSE, ifs |-> <<>>]
    /\ resolved = NotResolved
    /\ keyring = None
    /\ update = None
    /\ wire = <<>>
    /\ result = NoResult
    /\ log = <<>>
    /\ exit_code = None

\* lines 249-251: args = parse_args(); config = Config()
Startup ==
    /\ pc = "start"
    /\ args' = parse_args(cli)
    /\ IF ConfigValid(file)
       THEN /\ config' = Config(file)
            /\ pc' = "override"
            /\ exit_code' = exit_code
       ELSE /\ config' = config
            /\ pc' = "crashed"            \* uncaught ValidationError
            /\ exit_code' = Some(1)
    /\ UNCHANGED <<cli, file, net_if_addrs, resolved, keyring, update, wire, result, log>>

\* TSIGKey(name=..., algorithm=..., secret=...)
TSIGKey(n, a, s) == [name |-> n, algorithm |-> a, secret |-> s]

\* lines 253-277: command-line options override the configuration
Overridden(c, a) ==
    [ c EXCEPT
        !.name_server = IF ~IsNone(a.name_server)
                        THEN Some([type |-> "str", text |-> Get(a.name_server)])
                        ELSE @,
        !.zone        = IF ~IsNone(a.zone) THEN Get(a.zone) ELSE @,
        !.hostname    = IF ~IsNone(a.hostname) THEN Get(a.hostname) ELSE @,
        !.ttl         = IF ~IsNone(a.ttl) THEN Get(a.ttl) ELSE @,
        !.timeout     = IF ~IsNone(a.timeout) THEN Get(a.timeout) ELSE @,
        !.protocol    = IF ~IsNone(a.protocol) THEN Get(a.protocol) ELSE @,
        !.interface   = IF ~IsNone(a.interface) THEN a.interface ELSE @,
        !.log_level   = IF ~IsNone(a.log_level) THEN Get(a.log_level) ELSE @,
        !.tsig        = IF ~IsNone(a.tsig_name) /\ ~IsNone(a.tsig_secret)
                        THEN Append(@, TSIGKey(Get(a.tsig_name), Get(a.tsig_algorithm),
                                               Get(a.tsig_secret)))
                        ELSE @ ]

ApplyOverrides ==
    /\ pc = "override"
    /\ config' = Overridden(config, args)
    /\ pc' = "normalize"
    /\ UNCHANGED <<cli, file, args, net_if_addrs, resolved, keyring, update, wire,
                   result, log, exit_code>>

\* line 280: make the zone end with a dot
NormalizedZone(z) == IF ~EndsWithDot(z) THEN z \o <<46>> ELSE z

\* lines 279-284: zone normalisation, setup_logging, main() is entered
NormalizeZone ==
    /\ pc = "normalize"
    /\ config' = [config EXCEPT !.zone = NormalizedZone(@)]
    /\ pc' = "main"
    /\ UNCHANGED <<cli, file, args, net_if_addrs, resolved, keyring, update, wire,
                   result, log, exit_code>>

----------------------------------------------------------------------------
(* main(): required fields *)

Entry(level, msg, num, text) == [level |-> level, msg |-> msg, num |-> num, text |-> text]

\* config.name_server is None or config.name_server == ""
NameServerMissing(c) ==
    \/ IsNone(c.name_server)
    \/ (Get(c.name_server).type = "str" /\ Get(c.name_server).text = "")

\* lines 165-176: the first failing check, "" when all pass
MissingField(c) ==
    IF NameServerMissing(c) THEN "name_server"
    ELSE IF c.zone = <<>> THEN "zone"
    ELSE IF c.hostname = "" THEN "hostname"
    ELSE IF c.tsig = <<>> THEN "tsig"
    ELSE ""

\* dict comprehension of lines 179-181: a later key of the same name wins
from_text(keys) ==
    [ n \in {keys[i].name : i \in DOMAIN keys} |->
        LET last == CHOOSE i \in DOMAIN keys :
                        /\ keys[i].name = n
                        /\ \A j \in DOMAIN keys : keys[j].name = n => j <= i
        IN <<keys[last].algorithm, keys[last].secret>> ]

\* lines 164-181
CheckRequired ==
    /\ pc = "main"
    /\ IF MissingField(config) # ""
       THEN /\ log' = Append(log, Entry("error", "missing", 0, MissingField(config)))
            /\ pc' = "exited"
            /\ exit_code' = Some(1)
            /\ keyring' = keyring
       ELSE /\ keyring' = Some(from_text(config.tsig))
            /\ pc' = "resolve"
            /\ UNCHANGED <<log, exit_code>>
    /\ UNCHANGED <<cli, file, args, config, net_if_addrs, resolved, update, wire, result>>

----------------------------------------------------------------------------
(* Address resolver: get_interface_ip *)

\* special_interfaces = ["wlan", "以太网", "ethernet"]
special_interfaces ==
    << <<119, 108, 97, 110>>,
       <<20197, 22826, 32593>>,
       <<101, 116, 104, 101, 114, 110, 101, 116>> >>

InList(x, l) == \E i \in DOMAIN l : l[i] = x

\* lines 110-113: the first interface, in enumeration order, whose lowered
\* name is in special_interfaces; None when the loop ends with netif unbound
RECURSIVE HeuristicScan(_, _)
HeuristicScan(ifs, i) ==
    IF i > Len(ifs) THEN None
    ELSE IF InList(Lower(ifs[i].name), special_interfaces) THEN Some(ifs[i].addrs)
    ELSE HeuristicScan(ifs, i + 1)

\* faulty variant of Lookup: an unknown name falls back to the preference scan
LookupOrFallback(ifs, name) ==
    IF \E i \in DOMAIN ifs : ifs[i].name = name
    THEN Some(ifs[CHOOSE i \in DOMAIN ifs : ifs[i].name = name].addrs)
    ELSE HeuristicScan(ifs, 1)

\* lines 115-117: the interface of exactly that name; None when it is no key
Lookup(ifs, name) ==
    IF \E i \in DOMAIN ifs : ifs[i].name = name
    THEN Some(ifs[CHOOSE i \in DOMAIN ifs : ifs[i].name = name].addrs)
    ELSE None

\* faulty variant of Usable: the reserved range is not excluded
UsableReservedAllowed(ip) == ~is_loopback(ip) /\ ~is_link_local(ip)

\* line 124
Usable(ip) == ~is_loopback(ip) /\ ~is_link_local(ip) /\ ~is_reserved(ip)

\* lines 120-125: the first usable IPv4 address of the list, None when none
RECURSIVE ScanAddrs(_, _)
ScanAddrs(netif, i) ==
    IF i > Len(netif) THEN None
    ELSE IF netif[i].family = "AF_INET" /\ Usable(IPv4Address(netif[i].address))
         THEN Some(IPv4Address(netif[i].address))
    ELSE ScanAddrs(netif, i + 1)

\* lines 102-129; err names the exception the except clause logged, "" if none
get_interface_ip(interface_name, snap) ==
    IF snap.raises THEN [ip |-> None, err |-> "psutil.Error"]
    ELSE LET netif == IF IsNone(interface_name)
                      THEN HeuristicScan(snap.ifs, 1)
                      ELSE Lookup(snap.ifs, Get(interface_name))
         IN IF IsNone(netif)
            THEN [ip |-> None,
                  err |-> IF IsNone(interface_name) THEN "UnboundLocalError"
                          ELSE "ValueError"]
            ELSE [ip |-> ScanAddrs(Get(netif), 1), err |-> ""]

\* faulty variant of ResolveAddress: the failure is logged but the run goes on
ResolveAddressNoExit(snap) ==
    /\ pc = "resolve"
    /\ net_if_addrs' = snap
    /\ resolved' = [called |-> TRUE] @@ get_interface_ip(config.interface, net_if_addrs')
    /\ log' = log
           \o (IF resolved'.err # ""
               THEN <<Entry("error", "resolver", 0, resolved'.err)>> ELSE <<>>)
           \o (IF IsNone(resolved'.ip)
               THEN <<Entry("error", "no_address", 0, "")>> ELSE <<>>)
    /\ pc' = "build"
    /\ UNCHANGED <<cli, file, args, config, keyring, update, wire, result, exit_code>>

\* lines 183-187: ip_address = get_interface_ip(config.interface), where
\* psutil.net_if_addrs() returns the snapshot snap
ResolveAddress(snap) ==
    /\ pc = "resolve"
    /\ net_if_addrs' = snap
    /\ resolved' = [called |-> TRUE] @@ get_interface_ip(config.interface, net_if_addrs')
    /\ log' = log
           \o (IF resolved'.err # ""
               THEN <<Entry("error", "resolver", 0, resolved'.err)>> ELSE <<>>)
           \o (IF IsNone(resolved'.ip)
               THEN <<Entry("error", "no_address", 0, "")>> ELSE <<>>)
    /\ IF IsNone(resolved'.ip)
       THEN pc' = "exited" /\ exit_code' = Some(1)
       ELSE pc' = "build" /\ exit_code' = exit_code
    /\ UNCHANGED <<cli, file, args, config, keyring, update, wire, result>>

----------------------------------------------------------------------------
(* Update transaction *)

\* lines 189-197: Update(zone, keyring); replace(hostname, ttl, "A", ip.compressed)
BuildUpdate ==
    /\ pc = "build"
    /\ update' = Some([ zone    |-> config.zone,
                        keyring |-> Get(keyring),
                        name    |-> config.hostname,
                        ttl     |-> config.ttl,
                        rdtype  |-> "A",
                        rdata   |-> Compressed(Get(resolved.ip)) ])
    /\ log' = Append(log, Entry("info", "updating", 0, config.hostname))
    /\ pc' = "send"
    /\ UNCHANGED <<cli, file, args, config, net_if_addrs, resolved, keyring, wire,
                   result, exit_code>>

\* faulty variant of query_executor: the datagram transport whatever the configuration
query_executor_udp_only(protocol) ==
    IF protocol = "tcp" \/ protocol = "udp" THEN "udp" ELSE ""

\* lines 201-202: getattr(dns.query, config.protocol); "" when not in dir(dns.query)
query_executor(protocol) ==
    IF protocol = "tcp" THEN "tcp" ELSE IF protocol = "udp" THEN "udp" ELSE ""

NOERROR == 0
SERVFAIL == 2
NXDOMAIN == 3
REFUSED == 5
NOTAUTH == 9
NOTZONE == 10

MaxRcode == 11
ResponseIds == {7, 4660}

Response(rcode, id) == [kind |-> "response", rcode |-> rcode, id |-> id, exc |-> ""]
Raised(exc) == [kind |-> "raise", rcode |-> 0, id |-> 0, exc |-> exc]

\* what one exchange over the transport can produce: a response, or an exception
\* of the query call (a refused connection surfaces as such on a TCP connect)
Exchanges(transport) ==
    {Response(rc, id) : rc \in 0..MaxRcode, id \in ResponseIds}
    \cup {Raised("dns.exception.Timeout"), Raised("dns.exception.FormError"),
          Raised("dns.tsig.BadSignature")}
    \cup (IF transport = "tcp" THEN {Raised("ConnectionRefusedError")} ELSE {})

\* line 241: except dns.exception.DNSException
IsDNSException(exc) ==
    exc \in {"dns.exception.Timeout", "dns.exception.FormError", "dns.tsig.BadSignature"}

\* lines 200-209: one call of the query function
SendUpdate ==
    /\ pc = "send"
    /\ LET transport == query_executor(config.protocol) IN
       IF transport = ""
       THEN result' = Raised("ValueError") /\ wire' = wire
       ELSE IF Get(config.name_server).type # "IPv4Address"
       THEN \* config.name_server.compressed on a str
            result' = Raised("AttributeError") /\ wire' = wire
       ELSE /\ wire' = Append(wire, [ transport |-> transport,
                                      message   |-> Get(update),
                                      where     |-> Get(config.name_server).text,
                                      timeout   |-> config.timeout ])
            /\ result' \in Exchanges(transport)
    /\ pc' = IF result'.kind = "response" THEN "received" ELSE "raised"
    /\ UNCHANGED <<cli, file, args, config, net_if_addrs, resolved, keyring, update,
                   log, exit_code>>

\* faulty variant of Classify: the NOTZONE branch is missing
ClassifyWithoutNotZone(rcode) ==
    IF rcode = NOERROR THEN "Success"
    ELSE IF rcode = NXDOMAIN THEN "NXDOMAIN"
    ELSE IF rcode = SERVFAIL THEN "SERVFAIL"
    ELSE IF rcode = NOTAUTH THEN "NOTAUTH"
    ELSE IF rcode = REFUSED THEN "REFUSED"
    ELSE "Unknown"

\* lines 211-237: the if/elif chain over response.rcode()
Classify(rcode) ==
    IF rcode = NOERROR THEN "Success"
    ELSE IF rcode = NXDOMAIN THEN "NXDOMAIN"
    ELSE IF rcode = SERVFAIL THEN "SERVFAIL"
    ELSE IF rcode = NOTAUTH THEN "NOTAUTH"
    ELSE IF rcode = NOTZONE THEN "NOTZONE"
    ELSE IF rcode = REFUSED THEN "REFUSED"
    ELSE "Unknown"

\* the record logged for a response: Success carries response.id, the unknown
\* status carries response.rcode(), the named rejections carry the hostname
OutcomeEntry(r, hostname) ==
    LET cat == Classify(r.rcode) IN
    IF cat = "Success" THEN Entry("info", cat, r.id, "")
    ELSE IF cat = "Unknown" THEN Entry("error", cat, r.rcode, "")
    ELSE Entry("error", cat, 0, hostname)

\* logger.debug lines 238 and 243, emitted at log level debug
DebugEntry(level) == IF level = "debug" THEN <<Entry("debug", "detail", 0, "")>> ELSE <<>>

\* lines 211-240
ClassifyResponse ==
    /\ pc = "received"
    /\ log' = Append(log, OutcomeEntry(result, config.hostname))
              \o DebugEntry(config.log_level)
    /\ pc' = "done"
    /\ exit_code' = Some(0)
    /\ UNCHANGED <<cli, file, args, config, net_if_addrs, resolved, keyring, update,
                   wire, result>>

\* lines 241-245
HandleDNSException ==
    /\ pc = "raised"
    /\ IsDNSException(result.exc)
    /\ log' = Append(log, Entry("error", "DNSException", 0, result.exc))
              \o DebugEntry(config.log_level)
    /\ pc' = "done"
    /\ exit_code' = Some(0)
    /\ UNCHANGED <<cli, file, args, config, net_if_addrs, resolved, keyring, update,
                   wire, result>>

\* an exception no except clause matches ends the process with a traceback
Uncaught ==
    /\ pc = "raised"
    /\ ~IsDNSException(result.exc)
    /\ pc' = "crashed"
    /\ exit_code' = Some(1)
    /\ UNCHANGED <<cli, file, args, config, net_if_addrs, resolved, keyring, update,
                   wire, result, log>>

----------------------------------------------------------------------------
(* Host interface snapshots *)

Addr(family, address) == [family |-> family, address |-> address]
Iface(name, addrs) == [name |-> name, addrs |-> addrs]
Host(ifs) == [raises |-> FALSE, ifs |-> ifs]

Inet6 == Addr("AF_INET6", <<8193, 3512, 0, 1>>)
Loopback == Addr("AF_INET", <<127, 0, 0, 1>>)
LinkLocal == Addr("AF_INET", <<169, 254, 7, 9>>)
Reserved == Addr("AF_INET", <<240, 0, 0, 1>>)
PublicA == Addr("AF_INET", <<203, 0, 113, 7>>)
PrivateB == Addr("AF_INET", <<192, 168, 1, 10>>)

EnumerationError == [raises |-> TRUE, ifs |-> <<>>]

\* the snapshots a whole run is checked on
SampleSnapshots ==
    { Host(<< Iface(WLAN, <<Inet6, PublicA>>), Iface(lo, <<Loopback>>) >>),
      Host(<< Iface(lo, <<Loopback, PrivateB>>), Iface(Ethernet, <<LinkLocal, PrivateB, PublicA>>) >>),
      Host(<< Iface(Ethernet, <<Reserved>>), Iface(WLAN, <<PublicA>>) >>),
      Host(<< Iface(lo, <<Loopback>>) >>),
      EnumerationError }

\* the snapshots the resolver alone is checked on: every ordering of every
\* subset of IfNames, holding at most MaxAddrs addresses of AddrPool in all
IfNames == {WLAN, Ethernet, lo}
AddrPool == {Inet6, Loopback, LinkLocal, Reserved, PublicA, PrivateB}
MaxAddrs == 3

NameOrders ==
    UNION { { o \in [1..k -> IfNames] : \A i, j \in 1..k : i # j => o[i] # o[j] }
            : k \in 0..Cardinality(IfNames) }

RECURSIVE SumTo(_, _)
SumTo(l, i) == IF i = 0 THEN 0 ELSE l[i] + SumTo(l, i - 1)

Splits(k) == { l \in [1..k -> 0..MaxAddrs] : SumTo(l, k) <= MaxAddrs }

\* interfaces named o[1], o[2], ... in that order, interface i holding the
\* next l[i] addresses of flat
Snapshot(o, l, flat) ==
    Host([ i \in 1..Len(o) |->
             Iface(o[i], SubSeq(flat, SumTo(l, i - 1) + 1, SumTo(l, i))) ])

\* interface names asked for: none, a name written as the host writes it, the
\* same name in lower case, a name that matches no preference
Queries == {None, Some(WLAN), Some(wlan), Some(lo)}

\* the run has passed the required-field checks and is about to resolve
InitResolve ==
    /\ cli \in {[NoOptions EXCEPT !.interface = q] : q \in Queries}
    /\ file = RequiredFile
    /\ args = parse_args(cli)
    /\ config = [Overridden(Config(file), args) EXCEPT !.zone = NormalizedZone(@)]
    /\ pc = "resolve"
    /\ net_if_addrs = [raises |-> FALSE, ifs |-> <<>>]
    /\ resolved = NotResolved
    /\ keyring = Some(from_text(config.tsig))
    /\ update = None
    /\ wire = <<>>
    /\ result = NoResult
    /\ log = <<>>
    /\ exit_code = None

ResolveSnapshot ==
    /\ pc = "resolve"
    /\ \E o \in NameOrders : \E l \in Splits(Len(o)) :
         \E flat \in [1..SumTo(l, Len(o)) -> AddrPool] :
             ResolveAddress(Snapshot(o, l, flat))

ResolveEnumerationError == ResolveAddress(EnumerationError)

NextResolve == ResolveSnapshot \/ ResolveEnumerationError

SpecResolve == InitResolve /\ [][NextResolve]_vars

Next ==
    \/ \E snap \in SampleSnapshots : ResolveAddress(snap)
    \/ BuildUpdate
    \/ SendUpdate
    \/ ClassifyResponse
    \/ HandleDNSException
    \/ Uncaught
    \/ Startup
    \/ ApplyOverrides
    \/ NormalizeZone
    \/ CheckRequired

Spec == Init /\ [][Next]_vars

----------------------------------------------------------------------------
(* Properties of the resolver *)

\* the same text up to the case of ASCII letters
FoldCase(c) == IF c \in 97..122 THEN c - 32 ELSE c
SameIgnoringCase(a, b) ==
    Len(a) = Len(b) /\ \A i \in DOMAIN a : FoldCase(a[i]) = FoldCase(b[i])

\* the name is on the preference list, case ignored
Preferred(name) ==
    \E k \in DOMAIN special_interfaces : SameIgnoringCase(name, special_interfaces[k])

\* an IPv4 entry outside 127/8, 169.254/16 and 240/4
GoodEntry(a) ==
    /\ a.family = "AF_INET"
    /\ a.address[1] # 127
    /\ ~(a.address[1] = 169 /\ a.address[2] = 254)
    /\ a.address[1] < 240

\* positions of the first good entry of an address list (empty or one position)
FirstGood(L) == { k \in DOMAIN L : GoodEntry(L[k]) /\ \A j \in 1..(k - 1) : ~GoodEntry(L[j]) }

HostIfs == net_if_addrs.ifs
Enumerated == resolved.called /\ ~net_if_addrs.raises

\* positions of the interface the policy selects (empty or one position)
Chosen ==
    IF IsNone(config.interface)
    THEN { i \in DOMAIN HostIfs :
             Preferred(HostIfs[i].name) /\ \A j \in 1..(i - 1) : ~Preferred(HostIfs[j].name) }
    ELSE { i \in DOMAIN HostIfs : HostIfs[i].name = Get(config.interface) }

\* the resolver returned the address written at position k of list L
Returned(L, k) == ~IsNone(resolved.ip) /\ Compressed(Get(resolved.ip)) = L[k].address

\* C6: a supplied interface name that is no key of the enumeration makes the
\* resolver fail with the interface-not-found error and no address, whatever
\* other interfaces the host has
C6_UnknownInterfaceFails ==
    ( /\ Enumerated
      /\ ~IsNone(config.interface)
      /\ \A i \in DOMAIN HostIfs : HostIfs[i].name # Get(config.interface) )
    => ( IsNone(resolved.ip) /\ resolved.err = "ValueError" /\ pc = "exited" )

\* "wlan" was asked for, the host has "WLAN" with a good address: no address
C6_Witness ==
    /\ Enumerated
    /\ config.interface = Some(wlan)
    /\ \E i \in DOMAIN HostIfs :
         HostIfs[i].name = WLAN /\ FirstGood(HostIfs[i].addrs) # {}
    /\ IsNone(resolved.ip)

\* C7: from the chosen interface's address list the resolver returns the first
\* entry that is IPv4 and not loopback, link-local or reserved; when the list
\* has none it returns no address, raises nothing, and the run stops
C7_FirstUsableAddress ==
    Enumerated =>
        \A i \in Chosen :
            LET L == HostIfs[i].addrs IN
            IF FirstGood(L) = {}
            THEN IsNone(resolved.ip) /\ resolved.err = "" /\ pc = "exited"
            ELSE \A k \in FirstGood(L) : Returned(L, k)

\* an excluded entry, then two different good ones: the first good one is returned
C7_Witness ==
    /\ Enumerated
    /\ \E i \in Chosen :
         LET L == HostIfs[i].addrs IN
         /\ Len(L) = 3
         /\ ~GoodEntry(L[1]) /\ GoodEntry(L[2]) /\ GoodEntry(L[3])
         /\ L[2] # L[3]
         /\ Returned(L, 2)

\* C8: with no interface name the first interface in enumeration order whose
\* name matches the preference list, case ignored, decides the result alone;
\* with no matching interface the resolver fails and returns no address
C8_HeuristicFirstMatch ==
    (Enumerated /\ IsNone(config.interface)) =>
        LET M == { i \in DOMAIN HostIfs : Preferred(HostIfs[i].name) } IN
        IF M = {}
        THEN IsNone(resolved.ip) /\ resolved.err = "UnboundLocalError"
        ELSE LET f == CHOOSE i \in M : \A j \in M : i <= j
                 L == HostIfs[f].addrs
             IN IF \E k \in DOMAIN L : GoodEntry(L[k])
                THEN \E k \in DOMAIN L : GoodEntry(L[k]) /\ Returned(L, k)
                ELSE IsNone(resolved.ip)

\* the first match has no good address, a later match has one: no address
C8_Witness ==
    /\ Enumerated
    /\ IsNone(config.interface)
    /\ Len(HostIfs) = 3
    /\ ~Preferred(HostIfs[1].name)
    /\ Preferred(HostIfs[2].name) /\ FirstGood(HostIfs[2].addrs) = {}
    /\ HostIfs[2].addrs # <<>>
    /\ Preferred(HostIfs[3].name) /\ FirstGood(HostIfs[3].addrs) # {}
    /\ IsNone(resolved.ip)

----------------------------------------------------------------------------
(* Properties of a run *)

Terminated == pc \in {"done", "exited", "crashed"}

\* the outcome records of the log: one per classified response or caught exception
OutcomeNames ==
    {"Success", "NXDOMAIN", "SERVFAIL", "NOTAUTH", "NOTZONE", "REFUSED", "Unknown",
     "DNSException"}
Reported == SelectSeq(log, LAMBDA e : e.msg \in OutcomeNames)

\* resolution has to fail on this host for this configuration
MustFail ==
    \/ net_if_addrs.raises
    \/ Chosen = {}
    \/ \A i \in Chosen : FirstGood(HostIfs[i].addrs) = {}

\* C2: a run whose resolution fails (enumeration error, unknown interface, no
\* preferred interface, no usable address) has no address, exits with status 1
\* and neither builds nor sends an update; otherwise the resolver returns one
\* IPv4 address of the chosen interface and the update message and every
\* exchange carry exactly that address
C2_OneAddressOrAbort ==
    resolved.called =>
        IF MustFail
        THEN /\ IsNone(resolved.ip)
             /\ pc = "exited" /\ exit_code = Some(1)
             /\ IsNone(update) /\ wire = <<>>
        ELSE \A i \in Chosen : \A k \in FirstGood(HostIfs[i].addrs) :
               LET text == HostIfs[i].addrs[k].address IN
               /\ Returned(HostIfs[i].addrs, k)
               /\ ~IsNone(update) => Get(update).rdata = text
               /\ \A n \in DOMAIN wire : wire[n].message.rdata = text

\* a run that failed to resolve has ended, a run that resolved has sent its address
C2_Witness ==
    /\ resolved.called
    /\ ~MustFail
    /\ wire # <<>>
    /\ wire[1].message.rdata = <<203, 0, 113, 7>>
    /\ pc = "done"

\* the status codes of RFC 1035 and RFC 2136 and the category each is given
ExpectedCategory(rc) ==
    CASE rc = 0 -> "Success"
      [] rc = 2 -> "SERVFAIL"
      [] rc = 3 -> "NXDOMAIN"
      [] rc = 5 -> "REFUSED"
      [] rc = 9 -> "NOTAUTH"
      [] rc = 10 -> "NOTZONE"
      [] OTHER -> "Unknown"

\* C3: a run that received a response reports exactly one outcome, the category
\* of the response's status code: Success with the response's id for NOERROR,
\* the named category for each of the five named rejections, and the unknown
\* status with the raw code for every other code
C3_ClassificationByRcode ==
    /\ pc = "received" => Reported = <<>>
    /\ (pc = "done" /\ result.kind = "response") =>
         /\ Len(Reported) = 1
         /\ Reported[1].msg = ExpectedCategory(result.rcode)
         /\ Reported[1].level = (IF result.rcode = 0 THEN "info" ELSE "error")
         /\ Reported[1].msg = "Success" => Reported[1].num = result.id
         /\ Reported[1].msg = "Unknown" =>
              (Reported[1].num = result.rcode /\ result.rcode # 0)

\* a NOTZONE response is reported as NOTZONE
C3_Witness ==
    /\ pc = "done"
    /\ result.kind = "response" /\ result.rcode = 10
    /\ Len(Reported) = 1 /\ Reported[1].msg = "NOTZONE"

\* C5: a run makes at most one exchange, over the transport config.protocol
\* names and with the update message as built; once built the message never
\* changes, and once an exchange was made no other follows
C5_OneAttemptNoMutation ==
    /\ [](/\ Len(wire) <= 1
          /\ wire # <<>> => ( /\ wire[1].transport = config.protocol
                              /\ ~IsNone(update)
                              /\ wire[1].message = Get(update) ))
    /\ [][ /\ ~IsNone(update) => update' = update
           /\ wire # <<>> => wire' = wire ]_vars

\* a TCP exchange that timed out: the run is over and one exchange was made
C5_Witness ==
    /\ pc = "done"
    /\ Len(wire) = 1 /\ wire[1].transport = "tcp"
    /\ result.kind = "raise" /\ result.exc = "dns.exception.Timeout"

\* what the command line and config.toml supply for the required fields
NameServerSupplied ==
    IF ~IsNone(cli.name_server) THEN Get(cli.name_server) # ""
    ELSE ~IsNone(file.name_server)
ZoneSupplied ==
    IF ~IsNone(cli.zone) THEN Get(cli.zone) # <<>>
    ELSE ~IsNone(file.zone) /\ Get(file.zone) # <<>>
HostnameSupplied ==
    IF ~IsNone(cli.hostname) THEN Get(cli.hostname) # ""
    ELSE ~IsNone(file.hostname) /\ Get(file.hostname) # ""
KeysSupplied ==
    \/ ~IsNone(cli.tsig_name) /\ ~IsNone(cli.tsig_secret)
    \/ ~IsNone(file.tsig) /\ Get(file.tsig) # <<>>

\* C1: a run whose nameserver, zone, hostname or key list is missing or empty
\* never calls the resolver, never builds an update, never makes an exchange,
\* and ends with a non-zero exit status
C1_MissingFieldAborts ==
    ~(NameServerSupplied /\ ZoneSupplied /\ HostnameSupplied /\ KeysSupplied) =>
        /\ ~resolved.called
        /\ IsNone(update)
        /\ wire = <<>>
        /\ Terminated => (exit_code = Some(1) /\ pc # "done")

\* C4: a run whose exchange raised (timeout, malformed response, refused
\* connection, bad signature) ends having logged exactly one outcome, the
\* transport failure with the exception's detail, and no response-code outcome
C4_ExchangeFailureReported ==
    (Terminated /\ wire # <<>> /\ result.kind = "raise") =>
        /\ pc = "done"
        /\ Len(Reported) = 1
        /\ Reported[1].msg = "DNSException"
        /\ Reported[1].text = result.exc

\* C9: an update is built only after the required-field checks passed and an
\* address was resolved, an exchange is made only with a built update, and a
\* run that built its update ends only after the exchange, in exactly one of
\* Succeeded, RejectedByServer or TransportFailed
C9_RunEndsInOutcome ==
    /\ ~IsNone(update) => (MissingField(config) = "" /\ ~IsNone(resolved.ip))
    /\ wire # <<>> => ~IsNone(update)
    /\ (Terminated /\ ~IsNone(update)) =>
         /\ pc = "done"
         /\ wire # <<>>
         /\ Len(Reported) = 1

\* the name server's text, None when there is none
NameServerText(c) ==
    IF IsNone(c.name_server) THEN None ELSE Some(Get(c.name_server).text)

\* the command line's value when the option was given, else the file's setting
InEffect(option, setting) == IF ~IsNone(option) THEN Get(option) ELSE setting

\* C10: once the overrides are applied, each of the eight settings holds the
\* command line's value if the option was given and the loaded configuration's
\* value if it was omitted
C10_CommandLineOverrides ==
    pc = "normalize" =>
        LET loaded == Config(file) IN
        /\ NameServerText(config) =
             (IF ~IsNone(cli.name_server) THEN cli.name_server
              ELSE NameServerText(loaded))
        /\ config.zone = InEffect(cli.zone, loaded.zone)
        /\ config.hostname = InEffect(cli.hostname, loaded.hostname)
        /\ config.ttl = InEffect(cli.ttl, loaded.ttl)
        /\ config.timeout = InEffect(cli.timeout, loaded.timeout)
        /\ config.protocol = InEffect(cli.protocol, loaded.protocol)
        /\ config.interface =
             (IF ~IsNone(cli.interface) THEN cli.interface ELSE loaded.interface)
        /\ config.log_level = InEffect(cli.log_level, loaded.log_level)
====
